---- MODULE Spec2Model ----
(***************************************************************************)
(* posener/wsbeam: a WebSocket HTTP handler (Beam) that broadcasts data to *)
(* all connected connections.  The model follows src/wsbeam.go: the        *)
(* registry (pears, lock), one ServeHTTP handler per incoming request with *)
(* its buffered channel and its clientClosed reader goroutine, and         *)
(* concurrent callers of Send.                                             *)
(***************************************************************************)
EXTENDS Integers, Sequences, FiniteSets, TLC

(***************************************************************************)
(* Bounds of the model.                                                    *)
(***************************************************************************)
\* number of incoming requests (each creates its own pear)
MaxConns == 2
\* number of goroutines calling Send concurrently
MaxSenders == 2
\* total number of Send calls
MaxSends == 2
\* largest channel capacity OptBuffer is given (the default, 100, behaves
\* like any other positive capacity)
MaxBuffer == 2

\* total number of Send calls in the behaviours checked for liveness
FairSends == 1

\* the buffer New sets when OptBuffer is not given
DefaultBuffer == 100

\* websocket.TextMessage, the message type Send prepares every message with
TextMessage == 1

Conns == 1..MaxConns
Senders == 1..MaxSenders
CallIds == 1..MaxSends
\* the OptBuffer option given to New, if any
BufferOptions == {[given |-> FALSE, buffer |-> 0]}
                   \cup {[given |-> TRUE, buffer |-> n] : n \in 1..MaxBuffer}
\* New: a set of pears, buffer 100 unless OptBuffer overrides it
New(opt) == IF opt.given THEN opt.buffer ELSE DefaultBuffer
Buffers == {New(opt) : opt \in BufferOptions}

(***************************************************************************)
(* Payloads and encoding/json.  A number marshals to its decimal digits; a *)
(* channel value is not serializable (json.UnsupportedTypeError).          *)
(***************************************************************************)
NumValue(n) == [kind |-> "num", n |-> n]
ChanValue == [kind |-> "chan", n |-> 0]
NoValue == [kind |-> "none", n |-> 0]
Payloads == {NumValue(12), ChanValue}

DigitChars == <<"0", "1", "2", "3", "4", "5", "6", "7", "8", "9">>

RECURSIVE Digits(_)
Digits(n) == IF n < 10 THEN <<DigitChars[n + 1]>>
             ELSE Append(Digits(n \div 10), DigitChars[(n % 10) + 1])

DigitValue(c) == (CHOOSE i \in 1..10 : DigitChars[i] = c) - 1

RECURSIVE ParseDigits(_)
ParseDigits(s) == IF s = <<>> THEN 0
                  ELSE 10 * ParseDigits(SubSeq(s, 1, Len(s) - 1)) + DigitValue(s[Len(s)])

\* a Send that ignores the error of json.Marshal and sends what it got
MarshalIgnoreError(data) == IF data.kind = "num" THEN [ok |-> TRUE, buf |-> Digits(data.n)]
                            ELSE [ok |-> TRUE, buf |-> <<>>]

\* json.Marshal(data)
Marshal(data) == IF data.kind = "num" THEN [ok |-> TRUE, buf |-> Digits(data.n)]
                 ELSE [ok |-> FALSE, buf |-> <<>>]

\* what the client's ReadJSON decodes from a frame
Unmarshal(buf) == NumValue(ParseDigits(buf))

\* websocket.NewPreparedMessage(1, buf); id is the identity of the pointer,
\* one per Send call
NewPreparedMessage(id, buf) == [id |-> id, mt |-> TextMessage, data |-> buf]
NoMsg == [id |-> 0, mt |-> 0, data |-> <<>>]

(***************************************************************************)
(* State.                                                                  *)
(***************************************************************************)
VARIABLES
    ops,        \* the OptBuffer option New was called with
    buffer,     \* Beam.buffer
    logger,     \* Beam.logger: "printf" or "nil"
    pears,      \* Beam.pears, the set of registered pears
    lock,       \* Beam.lock: 0 when free, else the sender holding it
    hpc,        \* per request: position of its ServeHTTP handler
    ch,         \* per request: contents of the pear's channel
    v,          \* per request: the message the delivery loop received and is writing
    rd,         \* per request: the clientClosed goroutine ("none", "reading", "exited")
    client,     \* per request: the client's end ("none", "open", "closed")
    conn,       \* per request: the server's websocket.Conn ("none", "open", "closed")
    resp,       \* per request: HTTP status the client got (0, 101, 500)
    spc,        \* per sender: position inside Send
    msg,        \* per sender: the prepared message of the running Send
    remaining,  \* per sender: pears the range loop has not visited yet
    failed,     \* per sender: the failed list
    nextId,     \* number of Send calls made so far
    sent,       \* per Send call: the payload passed to Send
    result,     \* per Send call: "none", "nil", "error" or "panic"
    fanSeq,     \* Send calls in the order their fan-out took the lock
    pushed,     \* per request: the pushes attempted on its channel, in order
    written,    \* per request: the messages written to the connection, in order
    overflow,   \* the overflow lines handed to b.logger
    logged,     \* the lines handed to b.log that reached the logger
    calls       \* per request: how often conn.Close, b.remove and close(done) ran

cfgvars == <<ops, buffer, logger>>
regvars == <<pears, lock>>
connvars == <<hpc, ch, v, rd, client, conn, resp>>
sendvars == <<spc, msg, remaining, failed, nextId>>
histvars == <<sent, result, fanSeq, pushed, written, overflow>>
vars == <<ops, buffer, logger, pears, lock, hpc, ch, v, rd, client, conn, resp,
          spc, msg, remaining, failed, nextId,
          sent, result, fanSeq, pushed, written, overflow, logged, calls>>

\* New(ops...): defaults overridden by OptBuffer and OptLogger
Init ==
    /\ ops \in BufferOptions
    /\ buffer = New(ops)
    /\ logger \in {"printf", "nil"}
    /\ pears = {}
    /\ lock = 0
    /\ hpc = [c \in Conns |-> "idle"]
    /\ ch = [c \in Conns |-> <<>>]
    /\ v = [c \in Conns |-> NoMsg]
    /\ rd = [c \in Conns |-> "none"]
    /\ client = [c \in Conns |-> "none"]
    /\ conn = [c \in Conns |-> "none"]
    /\ resp = [c \in Conns |-> 0]
    /\ spc = [s \in Senders |-> "idle"]
    /\ msg = [s \in Senders |-> NoMsg]
    /\ remaining = [s \in Senders |-> {}]
    /\ failed = [s \in Senders |-> <<>>]
    /\ nextId = 0
    /\ sent = [i \in CallIds |-> NoValue]
    /\ result = [i \in CallIds |-> "none"]
    /\ fanSeq = <<>>
    /\ pushed = [c \in Conns |-> <<>>]
    /\ written = [c \in Conns |-> <<>>]
    /\ overflow = {}
    /\ logged = {}
    /\ calls = [c \in Conns |-> [close |-> 0, remove |-> 0, done |-> 0]]

\* the values the fields and locals range over
TypeOK ==
    /\ ops \in BufferOptions
    /\ buffer \in Buffers
    /\ logger \in {"printf", "nil"}
    /\ pears \subseteq Conns
    /\ lock \in {0} \cup Senders
    /\ hpc \in [Conns -> {"idle", "add", "upgrade", "select", "write", "close", "remove", "returned"}]
    /\ \A c \in Conns : Len(ch[c]) <= buffer
    /\ rd \in [Conns -> {"none", "reading", "exited"}]
    /\ client \in [Conns -> {"none", "open", "closed"}]
    /\ conn \in [Conns -> {"none", "open", "closed"}]
    /\ resp \in [Conns -> {0, 101, 500}]
    /\ spc \in [Senders -> {"idle", "lock", "range"}]
    /\ \A s \in Senders : remaining[s] \subseteq Conns
    /\ nextId \in 0..MaxSends
    /\ result \in [CallIds -> {"none", "nil", "error", "panic"}]
    /\ calls \in [Conns -> [close : 0..1, remove : 0..1, done : 0..1]]

\* Beam.log: nothing is written when the logger is nil
log(c, line) == IF logger = "nil" THEN logged ELSE logged \cup {<<c, line>>}

(***************************************************************************)
(* ServeHTTP, one handler per request c.                                   *)
(***************************************************************************)
\* make(chan, b.buffer), the pear, log "New connection"; next is b.add(p)
ServeHTTP(c) ==
    /\ hpc[c] = "idle"
    /\ hpc' = [hpc EXCEPT ![c] = "add"]
    /\ ch' = [ch EXCEPT ![c] = <<>>]
    /\ logged' = log(c, "New connection")
    /\ UNCHANGED <<cfgvars, regvars, v, rd, client, conn, resp, sendvars, histvars, calls>>

\* an add that takes the lock but does not insert the pear
addNoInsert(c) ==
    /\ hpc[c] = "add"
    /\ lock = 0
    /\ hpc' = [hpc EXCEPT ![c] = "upgrade"]
    /\ UNCHANGED <<cfgvars, pears, lock, ch, v, rd, client, conn, resp, sendvars, histvars, logged, calls>>

\* Beam.add: under the lock, c.pears[p] = true
add(c) ==
    /\ hpc[c] = "add"
    /\ lock = 0
    /\ pears' = pears \cup {c}
    /\ hpc' = [hpc EXCEPT ![c] = "upgrade"]
    /\ UNCHANGED <<cfgvars, lock, ch, v, rd, client, conn, resp, sendvars, histvars, logged, calls>>

\* an upgrade after which the handler returns without entering the loop
UpgradeOkNoLoop(c) ==
    /\ hpc[c] = "upgrade"
    /\ conn' = [conn EXCEPT ![c] = "open"]
    /\ client' = [client EXCEPT ![c] = "open"]
    /\ resp' = [resp EXCEPT ![c] = 101]
    /\ rd' = [rd EXCEPT ![c] = "reading"]
    /\ hpc' = [hpc EXCEPT ![c] = "close"]
    /\ UNCHANGED <<cfgvars, regvars, ch, v, sendvars, histvars, logged, calls>>

\* b.upgrader.Upgrade succeeds: the client gets 101; clientClosed(conn)
\* starts the reader goroutine; the handler enters the delivery loop
UpgradeOk(c) ==
    /\ hpc[c] = "upgrade"
    /\ conn' = [conn EXCEPT ![c] = "open"]
    /\ client' = [client EXCEPT ![c] = "open"]
    /\ resp' = [resp EXCEPT ![c] = 101]
    /\ rd' = [rd EXCEPT ![c] = "reading"]
    /\ hpc' = [hpc EXCEPT ![c] = "select"]
    /\ UNCHANGED <<cfgvars, regvars, ch, v, sendvars, histvars, logged, calls>>

\* a failure path that returns without the deferred b.remove
UpgradeFailNoRemove(c) ==
    /\ hpc[c] = "upgrade"
    /\ resp' = [resp EXCEPT ![c] = 500]
    /\ logged' = log(c, "Failed creating websocket")
    /\ hpc' = [hpc EXCEPT ![c] = "returned"]
    /\ UNCHANGED <<cfgvars, regvars, ch, v, rd, client, conn, sendvars, histvars, calls>>

\* b.upgrader.Upgrade fails: log, http.Error 500, return (deferred b.remove)
UpgradeFail(c) ==
    /\ hpc[c] = "upgrade"
    /\ resp' = [resp EXCEPT ![c] = 500]
    /\ logged' = log(c, "Failed creating websocket")
    /\ hpc' = [hpc EXCEPT ![c] = "remove"]
    /\ UNCHANGED <<cfgvars, regvars, ch, v, rd, client, conn, sendvars, histvars, calls>>

\* a delivery loop that takes the newest message instead of the oldest
ReceiveLast(c) ==
    /\ hpc[c] = "select"
    /\ ch[c] # <<>>
    /\ v' = [v EXCEPT ![c] = ch[c][Len(ch[c])]]
    /\ ch' = [ch EXCEPT ![c] = SubSeq(ch[c], 1, Len(ch[c]) - 1)]
    /\ hpc' = [hpc EXCEPT ![c] = "write"]
    /\ UNCHANGED <<cfgvars, regvars, rd, client, conn, resp, sendvars, histvars, logged, calls>>

\* a receive that reads the head of the channel and leaves it queued
ReceivePeek(c) ==
    /\ hpc[c] = "select"
    /\ ch[c] # <<>>
    /\ v' = [v EXCEPT ![c] = Head(ch[c])]
    /\ hpc' = [hpc EXCEPT ![c] = "write"]
    /\ UNCHANGED <<cfgvars, regvars, ch, rd, client, conn, resp, sendvars, histvars, logged, calls>>

\* select case v := <-ch; next is conn.WritePreparedMessage(v)
Receive(c) ==
    /\ hpc[c] = "select"
    /\ ch[c] # <<>>
    /\ v' = [v EXCEPT ![c] = Head(ch[c])]
    /\ ch' = [ch EXCEPT ![c] = Tail(ch[c])]
    /\ hpc' = [hpc EXCEPT ![c] = "write"]
    /\ UNCHANGED <<cfgvars, regvars, rd, client, conn, resp, sendvars, histvars, logged, calls>>

\* select case <-done: log "Client closed connection", return
SelectDone(c) ==
    /\ hpc[c] = "select"
    /\ rd[c] = "exited"
    /\ logged' = log(c, "Client closed connection")
    /\ hpc' = [hpc EXCEPT ![c] = "close"]
    /\ UNCHANGED <<cfgvars, regvars, ch, v, rd, client, conn, resp, sendvars, histvars, calls>>

\* a write that returns nil without a frame reaching the connection
WriteOkNoFrame(c) ==
    /\ hpc[c] = "write"
    /\ v' = [v EXCEPT ![c] = NoMsg]
    /\ hpc' = [hpc EXCEPT ![c] = "select"]
    /\ UNCHANGED <<cfgvars, regvars, ch, rd, client, conn, resp, sendvars, histvars, logged, calls>>

\* conn.WritePreparedMessage(v) returns nil
WriteOk(c) ==
    /\ hpc[c] = "write"
    /\ written' = [written EXCEPT ![c] = Append(@, v[c])]
    /\ v' = [v EXCEPT ![c] = NoMsg]
    /\ hpc' = [hpc EXCEPT ![c] = "select"]
    /\ UNCHANGED <<cfgvars, regvars, ch, rd, client, conn, resp, sendvars,
                   sent, result, fanSeq, pushed, overflow, logged, calls>>

\* a write failure that closes the connection itself, before the deferred close
WriteFailClosesConn(c) ==
    /\ hpc[c] = "write"
    /\ v' = [v EXCEPT ![c] = NoMsg]
    /\ logged' = log(c, "Failed writing to connection")
    /\ conn' = [conn EXCEPT ![c] = "closed"]
    /\ calls' = [calls EXCEPT ![c].close = @ + 1]
    /\ hpc' = [hpc EXCEPT ![c] = "close"]
    /\ UNCHANGED <<cfgvars, regvars, ch, rd, client, resp, sendvars, histvars>>

\* conn.WritePreparedMessage(v) returns an error: log, return
WriteFail(c) ==
    /\ hpc[c] = "write"
    /\ v' = [v EXCEPT ![c] = NoMsg]
    /\ logged' = log(c, "Failed writing to connection")
    /\ hpc' = [hpc EXCEPT ![c] = "close"]
    /\ UNCHANGED <<cfgvars, regvars, ch, rd, client, conn, resp, sendvars, histvars, calls>>

\* a handler that returns without closing the connection
CloseNoConnClose(c) ==
    /\ hpc[c] = "close"
    /\ logged' = log(c, "Disconnected")
    /\ hpc' = [hpc EXCEPT ![c] = "remove"]
    /\ UNCHANGED <<cfgvars, regvars, ch, v, rd, client, conn, resp, sendvars, histvars, calls>>

\* deferred b.log(p, "Disconnected") and conn.Close(); next is b.remove(p)
Close(c) ==
    /\ hpc[c] = "close"
    /\ conn' = [conn EXCEPT ![c] = "closed"]
    /\ logged' = log(c, "Disconnected")
    /\ hpc' = [hpc EXCEPT ![c] = "remove"]
    /\ calls' = [calls EXCEPT ![c].close = @ + 1]
    /\ UNCHANGED <<cfgvars, regvars, ch, v, rd, client, resp, sendvars, histvars>>

\* a remove that takes the lock but does not delete the pear
removeNoDelete(c) ==
    /\ hpc[c] = "remove"
    /\ lock = 0
    /\ hpc' = [hpc EXCEPT ![c] = "returned"]
    /\ calls' = [calls EXCEPT ![c].remove = @ + 1]
    /\ UNCHANGED <<cfgvars, pears, lock, ch, v, rd, client, conn, resp, sendvars, histvars, logged>>

\* Beam.remove (deferred): under the lock, delete(c.pears, p); handler returns
remove(c) ==
    /\ hpc[c] = "remove"
    /\ lock = 0
    /\ pears' = pears \ {c}
    /\ hpc' = [hpc EXCEPT ![c] = "returned"]
    /\ calls' = [calls EXCEPT ![c].remove = @ + 1]
    /\ UNCHANGED <<cfgvars, lock, ch, v, rd, client, conn, resp, sendvars, histvars, logged>>

\* a reader goroutine that ends without close(done)
ReadErrorNoClose(c) ==
    /\ rd[c] = "reading"
    /\ client[c] = "closed" \/ conn[c] = "closed"
    /\ rd' = [rd EXCEPT ![c] = "none"]
    /\ UNCHANGED <<cfgvars, regvars, hpc, ch, v, client, conn, resp, sendvars, histvars, logged, calls>>

\* clientClosed's goroutine: conn.ReadMessage returns an error once the
\* client has gone or the server closed the connection; deferred close(done)
ReadError(c) ==
    /\ rd[c] = "reading"
    /\ client[c] = "closed" \/ conn[c] = "closed"
    /\ rd' = [rd EXCEPT ![c] = "exited"]
    /\ calls' = [calls EXCEPT ![c].done = @ + 1]
    /\ UNCHANGED <<cfgvars, regvars, hpc, ch, v, client, conn, resp, sendvars, histvars, logged>>

\* the client closes its end (or the network loses it)
ClientClose(c) ==
    /\ client[c] = "open"
    /\ client' = [client EXCEPT ![c] = "closed"]
    /\ UNCHANGED <<cfgvars, regvars, hpc, ch, v, rd, conn, resp, sendvars, histvars, logged, calls>>

(***************************************************************************)
(* Send, called by sender s.                                               *)
(***************************************************************************)
\* a channel that takes one message more than its capacity
HasRoomOffByOne(q) == Len(q) <= buffer

\* select { case p.ch <- msg: default: }: whether the send case is taken
HasRoom(q) == Len(q) < buffer

\* a push that queues the message whether or not the channel has room
PushOverfill(q, m) == Append(q, m)

\* a push that evicts the oldest message of a full channel
PushEvict(q, m) == IF HasRoom(q) THEN Append(q, m) ELSE Append(Tail(q), m)

\* the channel after the non-blocking send
Push(q, m) == IF HasRoom(q) THEN Append(q, m) ELSE q

\* a send without the default case: it waits for room
CanPushBlocking(q) == HasRoom(q)

\* the select has a default case: the send never waits
CanPush(q) == TRUE

\* Send(data) up to b.lock.Lock(): json.Marshal fails, Send returns the error
SendMarshalFail(s, data) ==
    /\ spc[s] = "idle"
    /\ nextId < MaxSends
    /\ ~Marshal(data).ok
    /\ nextId' = nextId + 1
    /\ sent' = [sent EXCEPT ![nextId + 1] = data]
    /\ result' = [result EXCEPT ![nextId + 1] = "error"]
    /\ UNCHANGED <<cfgvars, regvars, connvars, spc, msg, remaining, failed,
                   fanSeq, pushed, written, overflow, logged, calls>>

\* Send(data) up to b.lock.Lock(): the message is marshaled and prepared
SendPrepare(s, data) ==
    /\ spc[s] = "idle"
    /\ nextId < MaxSends
    /\ Marshal(data).ok
    /\ nextId' = nextId + 1
    /\ sent' = [sent EXCEPT ![nextId + 1] = data]
    /\ msg' = [msg EXCEPT ![s] = NewPreparedMessage(nextId + 1, Marshal(data).buf)]
    /\ failed' = [failed EXCEPT ![s] = <<>>]
    /\ spc' = [spc EXCEPT ![s] = "lock"]
    /\ UNCHANGED <<cfgvars, regvars, connvars, remaining,
                   result, fanSeq, pushed, written, overflow, logged, calls>>

\* a Send that starts its range loop without taking the lock exclusively
SendLockNoMutex(s) ==
    /\ spc[s] = "lock"
    /\ lock' = s
    /\ remaining' = [remaining EXCEPT ![s] = pears]
    /\ fanSeq' = Append(fanSeq, msg[s].id)
    /\ spc' = [spc EXCEPT ![s] = "range"]
    /\ UNCHANGED <<cfgvars, pears, connvars, msg, failed, nextId,
                   sent, result, pushed, written, overflow, logged, calls>>

\* b.lock.Lock(); the range loop starts over b.pears
SendLock(s) ==
    /\ spc[s] = "lock"
    /\ lock = 0
    /\ lock' = s
    /\ remaining' = [remaining EXCEPT ![s] = pears]
    /\ fanSeq' = Append(fanSeq, msg[s].id)
    /\ spc' = [spc EXCEPT ![s] = "range"]
    /\ UNCHANGED <<cfgvars, pears, connvars, msg, failed, nextId,
                   sent, result, pushed, written, overflow, logged, calls>>

\* one iteration of for p := range b.pears (map order is arbitrary)
SendPush(s, p) ==
    /\ spc[s] = "range"
    /\ p \in remaining[s]
    /\ CanPush(ch[p])
    /\ ch' = [ch EXCEPT ![p] = Push(ch[p], msg[s])]
    /\ failed' = [failed EXCEPT ![s] = IF HasRoom(ch[p]) THEN @ ELSE Append(@, p)]
    /\ pushed' = [pushed EXCEPT ![p] =
                    Append(@, [id |-> msg[s].id, ok |-> ch'[p] # ch[p]])]
    /\ remaining' = [remaining EXCEPT ![s] = @ \ {p}]
    /\ UNCHANGED <<cfgvars, regvars, hpc, v, rd, client, conn, resp, spc, msg, nextId,
                   sent, result, fanSeq, written, overflow, logged, calls>>

\* a Send that returns without b.lock.Unlock()
SendReturnNoUnlock(s) ==
    /\ spc[s] = "range"
    /\ remaining[s] = {}
    /\ spc' = [spc EXCEPT ![s] = "idle"]
    /\ msg' = [msg EXCEPT ![s] = NoMsg]
    /\ failed' = [failed EXCEPT ![s] = <<>>]
    /\ result' = [result EXCEPT ![msg[s].id] = "nil"]
    /\ UNCHANGED <<cfgvars, regvars, connvars, remaining, nextId,
                   sent, fanSeq, pushed, written, overflow, logged, calls>>

\* a Send that hands the logger one overflow line per failed pear
SendReturnPerPeer(s) ==
    /\ spc[s] = "range"
    /\ remaining[s] = {}
    /\ lock' = 0
    /\ spc' = [spc EXCEPT ![s] = "idle"]
    /\ msg' = [msg EXCEPT ![s] = NoMsg]
    /\ failed' = [failed EXCEPT ![s] = <<>>]
    /\ IF Len(failed[s]) > 0
       THEN IF logger = "nil"
            THEN /\ result' = [result EXCEPT ![msg[s].id] = "panic"]
                 /\ overflow' = overflow
            ELSE /\ result' = [result EXCEPT ![msg[s].id] = "nil"]
                 /\ overflow' = overflow \cup
                       {[id |-> msg[s].id, addrs |-> <<failed[s][k]>>] : k \in DOMAIN failed[s]}
       ELSE /\ result' = [result EXCEPT ![msg[s].id] = "nil"]
            /\ overflow' = overflow
    /\ UNCHANGED <<cfgvars, pears, connvars, remaining, nextId,
                   sent, fanSeq, pushed, written, logged, calls>>

\* after the loop: the overflow line through b.logger (a nil func call
\* panics), return nil; the deferred b.lock.Unlock() runs in both cases
SendReturn(s) ==
    /\ spc[s] = "range"
    /\ remaining[s] = {}
    /\ lock' = 0
    /\ spc' = [spc EXCEPT ![s] = "idle"]
    /\ msg' = [msg EXCEPT ![s] = NoMsg]
    /\ failed' = [failed EXCEPT ![s] = <<>>]
    /\ IF Len(failed[s]) > 0
       THEN IF logger = "nil"
            THEN /\ result' = [result EXCEPT ![msg[s].id] = "panic"]
                 /\ overflow' = overflow
            ELSE /\ result' = [result EXCEPT ![msg[s].id] = "nil"]
                 /\ overflow' = overflow \cup {[id |-> msg[s].id, addrs |-> failed[s]]}
       ELSE /\ result' = [result EXCEPT ![msg[s].id] = "nil"]
            /\ overflow' = overflow
    /\ UNCHANGED <<cfgvars, pears, connvars, remaining, nextId,
                   sent, fanSeq, pushed, written, logged, calls>>

Next ==
    \/ \E c \in Conns : ServeHTTP(c)
    \/ \E c \in Conns : add(c)
    \/ \E c \in Conns : UpgradeOk(c)
    \/ \E c \in Conns : UpgradeFail(c)
    \/ \E c \in Conns : Receive(c)
    \/ \E c \in Conns : SelectDone(c)
    \/ \E c \in Conns : WriteOk(c)
    \/ \E c \in Conns : WriteFail(c)
    \/ \E c \in Conns : Close(c)
    \/ \E c \in Conns : remove(c)
    \/ \E c \in Conns : ReadError(c)
    \/ \E c \in Conns : ClientClose(c)
    \/ \E s \in Senders, data \in Payloads : SendMarshalFail(s, data)
    \/ \E s \in Senders, data \in Payloads : SendPrepare(s, data)
    \/ \E s \in Senders : SendLock(s)
    \/ \E s \in Senders, p \in Conns : SendPush(s, p)
    \/ \E s \in Senders : SendReturn(s)

Spec == Init /\ [][Next]_vars

(***************************************************************************)
(* Scheduling.  The Go scheduler runs every runnable goroutine: a handler  *)
(* that can take its next step does, sync.Mutex hands the lock to whoever  *)
(* waits for it, and a Send holding the lock finishes its loop.  A read or *)
(* a write on a connection whose other end has gone returns; a write to a  *)
(* client that is there but does not read may never return, so it gets no  *)
(* fairness.                                                               *)
(***************************************************************************)
WriteReturns(c) == client[c] = "closed" /\ (WriteOk(c) \/ WriteFail(c))

Fairness ==
    /\ \A c \in Conns :
          /\ WF_vars(SelectDone(c))
          /\ WF_vars(WriteReturns(c))
          /\ WF_vars(Close(c))
          /\ WF_vars(remove(c))
          /\ WF_vars(ReadError(c))
          /\ WF_vars(add(c))
    /\ \A s \in Senders :
          /\ WF_vars(SendLock(s))
          /\ WF_vars(\E p \in Conns : SendPush(s, p))
          /\ WF_vars(SendReturn(s))

\* the behaviours with at most FairSends calls of Send
FairNext ==
    \/ \E c \in Conns : ServeHTTP(c)
    \/ \E c \in Conns : add(c)
    \/ \E c \in Conns : UpgradeOk(c)
    \/ \E c \in Conns : UpgradeFail(c)
    \/ \E c \in Conns : Receive(c)
    \/ \E c \in Conns : SelectDone(c)
    \/ \E c \in Conns : WriteOk(c)
    \/ \E c \in Conns : WriteFail(c)
    \/ \E c \in Conns : Close(c)
    \/ \E c \in Conns : remove(c)
    \/ \E c \in Conns : ReadError(c)
    \/ \E c \in Conns : ClientClose(c)
    \/ \E s \in Senders, data \in Payloads : nextId < FairSends /\ SendMarshalFail(s, data)
    \/ \E s \in Senders, data \in Payloads : nextId < FairSends /\ SendPrepare(s, data)
    \/ \E s \in Senders : SendLock(s)
    \/ \E s \in Senders, p \in Conns : SendPush(s, p)
    \/ \E s \in Senders : SendReturn(s)

FairSpec == Init /\ [][FairNext]_vars /\ Fairness

\* the delivery loop's own progress: select takes a ready channel case, and a
\* call of conn.WritePreparedMessage returns
DeliverFairness ==
    /\ Fairness
    /\ \A c \in Conns :
          /\ WF_vars(Receive(c))
          /\ WF_vars(WriteOk(c) \/ WriteFail(c))

DeliverSpec == Init /\ [][FairNext]_vars /\ DeliverFairness

(***************************************************************************)
(* Vocabulary of the properties.                                           *)
(***************************************************************************)
\* the Send calls that have returned
Returned(i) == result[i] # "none"
\* the Send calls whose payload json.Marshal accepts
Serializable(i) == sent[i].kind = "num"
\* position of Send call i among the fan-outs
FanPos(i) == CHOOSE k \in DOMAIN fanSeq : fanSeq[k] = i
\* Send call i attempted a push on c / had it accepted / had it rejected
Attempted(c, i) == \E k \in DOMAIN pushed[c] : pushed[c][k].id = i
Accepted(c, i) == \E k \in DOMAIN pushed[c] : pushed[c][k].id = i /\ pushed[c][k].ok
Rejected(c, i) == \E k \in DOMAIN pushed[c] : pushed[c][k].id = i /\ ~pushed[c][k].ok
\* Send call i's frame was written to c's connection
Wrote(c, i) == \E k \in DOMAIN written[c] : written[c][k].id = i
NumAccepted(c) == Cardinality({k \in DOMAIN pushed[c] : pushed[c][k].ok})
\* the client of c has seen the upgrade succeed and the server has not closed
Connected(c) == resp[c] = 101 /\ conn[c] = "open"
\* the delivery loop of c is stalled in a write, or c's channel is full
Stalled(c) == c \in pears /\ (hpc[c] = "write" \/ ~HasRoom(ch[c]))

(***************************************************************************)
(* C1: every Send of a serializable payload returns no error, also when    *)
(* peer queues are full.  Stated on the calls that have returned: a        *)
(* returned Send of a serializable payload returned nil.                   *)
(***************************************************************************)
C1_SendReturnsNil ==
    \A i \in CallIds : (Returned(i) /\ Serializable(i)) => result[i] = "nil"

(***************************************************************************)
(* C2: a peer that is stalled in a write or whose queue is full never      *)
(* prevents progress of anyone else: while such a peer is registered,      *)
(* every Send in its fan-out can take its next step on whichever peer the  *)
(* range loop visits next (and return once the loop is over), every other  *)
(* peer's delivery loop can take a queued message, and its write can       *)
(* complete.                                                               *)
(***************************************************************************)
C2_StalledPeerBlocksNoOne ==
    \A p \in Conns : Stalled(p) =>
        /\ \A s \in Senders : spc[s] = "range" =>
              /\ \A q \in remaining[s] : ENABLED SendPush(s, q)
              /\ remaining[s] = {} => ENABLED SendReturn(s)
        /\ \A q \in Conns \ {p} :
              /\ (hpc[q] = "select" /\ ch[q] # <<>>) => ENABLED Receive(q)
              /\ hpc[q] = "write" => ENABLED WriteOk(q)

\* a Send found p full and still enqueued on q, whose loop wrote the frame,
\* all while p stays registered and full
C2_Witness ==
    \E p \in Conns, q \in Conns, i \in CallIds :
        /\ p # q
        /\ Stalled(p)
        /\ Rejected(p, i)
        /\ Accepted(q, i)
        /\ Wrote(q, i)

(***************************************************************************)
(* C3: the fan-out of Send visits every registered peer; a peer whose      *)
(* queue has room gets exactly the one prepared message appended to the    *)
(* tail of its queue, a peer whose queue is full has its queue unchanged;  *)
(* what a client decodes from a frame is the payload that was sent.        *)
(***************************************************************************)
C3_PushStep ==
    \A s \in Senders, p \in Conns :
        (spc[s] = "range" /\ p \in remaining[s] /\ p \notin remaining'[s]) =>
            /\ ch'[p] = IF Len(ch[p]) < buffer THEN Append(ch[p], msg[s]) ELSE ch[p]
            /\ \A q \in Conns \ {p} : ch'[q] = ch[q]
            /\ msg'[s] = msg[s]

C3_FanOutCoversRegistry ==
    \A s \in Senders :
        /\ spc[s] = "range" => \A p \in pears : p \in remaining[s] \/ Attempted(p, msg[s].id)
        /\ spc[s] = "range" => \A p \in Conns \ pears : ~Attempted(p, msg[s].id)

C3_FramesCarryPayload ==
    \A c \in Conns : \A k \in DOMAIN written[c] :
        /\ Unmarshal(written[c][k].data) = sent[written[c][k].id]
        /\ written[c][k].mt = TextMessage

\* C3: every fan-out step appends the one message to a queue with room and
\* leaves a full queue unchanged, the fan-out visits exactly the registered
\* peers, and every frame decodes to the payload that was sent
C3_FanOut ==
    /\ [][C3_PushStep]_vars
    /\ [](C3_FanOutCoversRegistry /\ C3_FramesCarryPayload)

\* one Send's fan-out is over two registered peers, accepted by one and
\* rejected by the other, and the accepting peer's client got the frame
C3_Witness ==
    \E s \in Senders, p \in Conns, q \in Conns :
        /\ spc[s] = "range" /\ remaining[s] = {}
        /\ {p, q} \subseteq pears
        /\ Accepted(p, msg[s].id) /\ Wrote(p, msg[s].id)
        /\ Rejected(q, msg[s].id)

(***************************************************************************)
(* C4: per peer, frames are written in the order of the fan-outs of the    *)
(* Sends they come from.                                                   *)
(***************************************************************************)
C4_WrittenInFanOutOrder ==
    \A c \in Conns : \A j, k \in DOMAIN written[c] :
        j < k => FanPos(written[c][j].id) < FanPos(written[c][k].id)

\* two frames written to one peer, from Sends whose fan-outs ran in the
\* opposite order of their calls
C4_Witness ==
    \E c \in Conns :
        /\ Len(written[c]) = 2
        /\ written[c][1].id > written[c][2].id

(***************************************************************************)
(* C5, as stated: with capacity K and a connected peer none of whose       *)
(* writes completes, of K+1 payloads the first K are accepted and the      *)
(* (K+1)-th is rejected, also when the delivery loop is blocked writing a  *)
(* message it took off the queue.                                          *)
(***************************************************************************)
NoWriteCompleted(c) == hpc[c] \in {"upgrade", "select", "write"} /\ written[c] = <<>>

\* C5 as stated: the first K pushes are accepted and the (K+1)-th is rejected
C5_Original ==
    \A c \in Conns : (NoWriteCompleted(c) /\ Len(pushed[c]) >= buffer + 1) =>
        /\ \A k \in 1..buffer : pushed[c][k].ok
        /\ ~pushed[c][buffer + 1].ok

(***************************************************************************)
(* C5, amended: the first K payloads are always accepted; as long as the   *)
(* delivery loop has taken nothing off the queue every later payload is    *)
(* rejected (so the (K+1)-th is); once the loop has taken a message and is *)
(* blocked writing it the queue has room for one more, so at most K+1 are  *)
(* accepted, and what is accepted is what is queued plus the one in flight.*)
(***************************************************************************)
InFlight(c) == IF hpc[c] = "write" THEN 1 ELSE 0

\* C5 amended: the first K are accepted, at most K plus the one in flight are
\* accepted, and nothing beyond K is accepted while nothing is in flight
C5_Amended ==
    \A c \in Conns : NoWriteCompleted(c) =>
        /\ \A k \in DOMAIN pushed[c] : k <= buffer => pushed[c][k].ok
        /\ NumAccepted(c) = Len(ch[c]) + InFlight(c)
        /\ NumAccepted(c) <= buffer + InFlight(c)
        /\ InFlight(c) = 0 => \A k \in DOMAIN pushed[c] : k > buffer => ~pushed[c][k].ok

\* the loop is blocked writing the first message and the (K+1)-th payload
\* was accepted
C5_Witness ==
    \E c \in Conns :
        /\ NoWriteCompleted(c) /\ hpc[c] = "write"
        /\ Len(pushed[c]) = buffer + 1
        /\ \A k \in DOMAIN pushed[c] : pushed[c][k].ok

(***************************************************************************)
(* C6: from the successful upgrade until the connection is closed the peer *)
(* is in the registry, once; every fan-out running while the peer is       *)
(* connected has the peer among those it visits.                           *)
(***************************************************************************)
C6_ConnectedIsRegistered ==
    \A c \in Conns : Connected(c) =>
        /\ c \in pears
        /\ Cardinality({p \in pears : p = c}) = 1
        /\ \A s \in Senders : spc[s] = "range" =>
              c \in remaining[s] \/ Attempted(c, msg[s].id)

\* a Send whose fan-out ran after the connect has pushed on the peer
C6_Witness ==
    \E c \in Conns, s \in Senders :
        /\ Connected(c)
        /\ spc[s] = "range"
        /\ Attempted(c, msg[s].id)
        /\ pushed[c][Len(pushed[c])].id = msg[s].id
        /\ Len(pushed[c]) = 1

(***************************************************************************)
(* C7: once the connection of a connected peer is closed (the client has   *)
(* gone, or a write failed on the server side), the peer is eventually     *)
(* removed from the registry, whatever the delivery loop was doing; the    *)
(* removal takes exactly that peer out of the registry.                    *)
(***************************************************************************)
ConnectionLost(c) == (resp[c] = 101 /\ client[c] = "closed") \/ hpc[c] = "close"

C7_RemoveStep ==
    \A c \in Conns : (c \in pears /\ c \notin pears') =>
        /\ pears' = pears \ {c}
        /\ Cardinality(pears') = Cardinality(pears) - 1
        /\ hpc'[c] = "returned" /\ conn[c] # "open"

\* C7: a peer whose connection is lost is eventually out of the registry and
\* its handler has returned; a removal takes out exactly that peer
C7_ClosedIsRemoved ==
    /\ \A c \in Conns : ConnectionLost(c) ~> (c \notin pears /\ hpc[c] = "returned")
    /\ [][C7_RemoveStep]_vars

\* the only registered peer was closed by its client while its delivery
\* loop was in the middle of a write, and the registry went from 1 to 0
C7_Witness ==
    \E c \in Conns :
        /\ resp[c] = 101 /\ client[c] = "closed" /\ hpc[c] = "returned"
        /\ pears = {}
        /\ written[c] # <<>>
        /\ \A d \in Conns \ {c} : hpc[d] = "idle"

(***************************************************************************)
(* C8: when json.Marshal fails Send returns an error and touches nothing:  *)
(* the step changes no queue, not the registry, not the lock; the call     *)
(* never takes part in a fan-out and no frame of it is ever written.       *)
(***************************************************************************)
C8_FailStep ==
    (nextId' = nextId + 1 /\ sent'[nextId'].kind # "num") =>
        /\ result'[nextId'] = "error"
        /\ UNCHANGED <<pears, lock, ch, v, hpc, spc, msg, remaining, failed,
                       fanSeq, pushed, written, overflow>>

C8_NeverDelivered ==
    \A i \in CallIds : (sent[i] # NoValue /\ ~Serializable(i)) =>
        /\ result[i] = "error"
        /\ \A k \in DOMAIN fanSeq : fanSeq[k] # i
        /\ \A s \in Senders : msg[s].id # i
        /\ \A c \in Conns :
              /\ ~Attempted(c, i) /\ ~Wrote(c, i) /\ v[c].id # i
              /\ \A k \in DOMAIN ch[c] : ch[c][k].id # i

\* C8: the failing Send's step touches nothing and returns an error, and the
\* call never reaches a fan-out, a queue or a connection
C8_MarshalFailure == [][C8_FailStep]_vars /\ []C8_NeverDelivered

\* a Send failed to serialize while a peer was connected, and another Send
\* then delivered to that peer
C8_Witness ==
    \E i \in CallIds, j \in CallIds, c \in Conns :
        /\ result[i] = "error"
        /\ i < j
        /\ Wrote(c, j)

(***************************************************************************)
(* C9, as stated: when the upgrade fails no peer of that request is ever   *)
(* in the registry and no Send pushes on it.                               *)
(***************************************************************************)
C9_Original ==
    \A c \in Conns : resp[c] = 500 => (c \notin pears /\ pushed[c] = <<>>)

(***************************************************************************)
(* C9, amended: when the upgrade fails the handler answers 500 and         *)
(* returns; no connection and no reader exist for the request, no frame is *)
(* ever written for it, and once the handler has returned the peer it      *)
(* registered before the upgrade is out of the registry.                   *)
(***************************************************************************)
C9_Amended ==
    \A c \in Conns : resp[c] = 500 =>
        /\ hpc[c] \in {"remove", "returned"}
        /\ conn[c] = "none" /\ rd[c] = "none" /\ client[c] = "none"
        /\ written[c] = <<>> /\ v[c] = NoMsg
        /\ hpc[c] = "returned" => c \notin pears

\* the handler of a failed upgrade has returned, and a Send had pushed on
\* its peer while the upgrade was pending
C9_Witness ==
    \E c \in Conns :
        /\ resp[c] = 500 /\ hpc[c] = "returned"
        /\ c \notin pears
        /\ pushed[c] # <<>> /\ pushed[c][1].ok

(***************************************************************************)
(* C10: with the logger disabled a Send that finds a peer queue full still *)
(* returns nil.                                                            *)
(***************************************************************************)
C10_NilLoggerSendReturnsNil ==
    logger = "nil" =>
        \A i \in CallIds : (Returned(i) /\ \E c \in Conns : Rejected(c, i)) =>
            result[i] = "nil"


(***************************************************************************)
(* C11: Sends, connects and disconnects never deadlock on the registry     *)
(* lock.  Only a Send in its fan-out holds the lock across steps, and      *)
(* while it does its next step (a push, or the return that unlocks) can    *)
(* always be taken; so the lock is always released again, and every        *)
(* pending add, remove and Send gets it.                                   *)
(***************************************************************************)
C11_HolderCanStep ==
    /\ \A s \in Senders : lock = s <=> spc[s] = "range"
    /\ \A s \in Senders : lock = s =>
          IF remaining[s] = {} THEN ENABLED SendReturn(s)
          ELSE \A p \in remaining[s] : ENABLED SendPush(s, p)
    /\ lock = 0 =>
          /\ \A c \in Conns : hpc[c] = "add" => ENABLED add(c)
          /\ \A c \in Conns : hpc[c] = "remove" => ENABLED remove(c)
          /\ \A s \in Senders : spc[s] = "lock" => ENABLED SendLock(s)

C12_Original ==
    \A c \in Conns : conn[c] = "closed" => c \notin pears

(***************************************************************************)
(* C12, amended: the registry holds no peer whose handler has returned,    *)
(* and no Send enqueues on such a peer.  A peer whose connection the       *)
(* server has closed is registered only while its handler is between       *)
(* conn.Close() and the deferred b.remove.                                 *)
(***************************************************************************)
C12_ReturnedStep ==
    \A c \in Conns : hpc[c] = "returned" =>
        /\ hpc'[c] = "returned" /\ c \notin pears'
        /\ ch'[c] = ch[c] /\ pushed'[c] = pushed[c]

C12_RegistryIsLive ==
    \A c \in Conns :
        /\ c \in pears <=> hpc[c] \in {"upgrade", "select", "write", "close", "remove"}
        /\ (conn[c] = "closed" /\ c \in pears) => hpc[c] = "remove"
        /\ \A s \in Senders : (spc[s] = "range" /\ c \in remaining[s]) => c \in pears

\* C12 amended: a returned handler's peer is out of the registry for good and
\* is never pushed on; a closed connection is registered only until b.remove
C12_Amended == [][C12_ReturnedStep]_vars /\ []C12_RegistryIsLive

\* a connection was closed and removed, and a later Send's fan-out went over
\* the other peer only
C12_Witness ==
    \E c \in Conns, d \in Conns, s \in Senders :
        /\ hpc[c] = "returned" /\ conn[c] = "closed"
        /\ spc[s] = "range" /\ remaining[s] = {}
        /\ Attempted(d, msg[s].id)
        /\ ~Attempted(c, msg[s].id)
        /\ pushed[c] # <<>>

(***************************************************************************)
(* C13: on both exits of the delivery loop (write failure, done) the       *)
(* handler closes the connection exactly once and removes the peer exactly *)
(* once: neither is done twice, and a returned handler has done both and   *)
(* left no registry entry.                                                 *)
(***************************************************************************)
C13_CleanupExactlyOnce ==
    \A c \in Conns :
        /\ calls[c].close <= 1 /\ calls[c].remove <= 1
        /\ hpc[c] # "returned" => calls[c].remove = 0
        /\ hpc[c] \in {"select", "write", "close"} => calls[c].close = 0
        /\ (hpc[c] = "remove" /\ resp[c] = 101) => calls[c].close = 1
        /\ (hpc[c] = "returned" /\ resp[c] = 101) =>
              /\ calls[c].close = 1 /\ conn[c] = "closed"
              /\ calls[c].remove = 1 /\ c \notin pears

\* one handler has returned after a write failure and another after done
C13_Witness ==
    \E c \in Conns, d \in Conns :
        /\ hpc[c] = "returned" /\ <<c, "Failed writing to connection">> \in logged
        /\ hpc[d] = "returned" /\ <<d, "Client closed connection">> \in logged

\* the number of copies of Send i's message that peer c holds or has written
Copies(c, i) ==
    Cardinality({k \in DOMAIN written[c] : written[c][k].id = i})
      + Cardinality({k \in DOMAIN ch[c] : ch[c][k].id = i})
      + (IF v[c].id = i THEN 1 ELSE 0)

(***************************************************************************)
(* C14: for each Send and each peer at most one frame of that Send is ever *)
(* written to the peer, and only if the Send's push on the peer's queue    *)
(* was accepted: never after a rejected push, never twice.                 *)
(***************************************************************************)
C14_AtMostOnce ==
    \A c \in Conns : \A i \in CallIds :
        /\ Cardinality({k \in DOMAIN pushed[c] : pushed[c][k].id = i}) <= 1
        /\ Copies(c, i) <= 1
        /\ Copies(c, i) = 1 => Accepted(c, i)
        /\ Wrote(c, i) => Accepted(c, i) /\ ~Rejected(c, i)
        /\ Rejected(c, i) => Copies(c, i) = 0

\* one Send's frame was written to a peer that accepted it, while the peer that
\* rejected it has written another Send's frame only
C14_Witness ==
    \E c \in Conns, d \in Conns : \E i \in CallIds, j \in CallIds :
        /\ Wrote(c, i) /\ Wrote(c, j) /\ i # j
        /\ Rejected(d, i) /\ Wrote(d, j)

\* the lifecycle state of connection c: 1 Created (pear made, not yet added),
\* 2 Registered (added, not upgraded), 3 Active (in the delivery loop),
\* 4 Closing (loop left, deferred cleanup running), 5 Removed (handler returned)
Stage(c) ==
    CASE hpc[c] \in {"idle", "add"}       -> 1
      [] hpc[c] = "upgrade"               -> 2
      [] hpc[c] \in {"select", "write"}   -> 3
      [] hpc[c] = "close"                 -> 4
      [] hpc[c] = "remove"                -> IF resp[c] = 101 THEN 4 ELSE 2
      [] hpc[c] = "returned"              -> 5

StageNext(c) ==
    CASE hpc'[c] \in {"idle", "add"}      -> 1
      [] hpc'[c] = "upgrade"              -> 2
      [] hpc'[c] \in {"select", "write"}  -> 3
      [] hpc'[c] = "close"                -> 4
      [] hpc'[c] = "remove"               -> IF resp'[c] = 101 THEN 4 ELSE 2
      [] hpc'[c] = "returned"             -> 5

(***************************************************************************)
(* C15, as stated: every connection moves through Created, Registered,     *)
(* Active, Closing, Removed one state at a time, never skipping one.       *)
(***************************************************************************)
C15_Original ==
    [][\A c \in Conns : StageNext(c) \in {Stage(c), Stage(c) + 1}]_vars

C15_StageStep ==
    \A c \in Conns :
        /\ \/ StageNext(c) \in {Stage(c), Stage(c) + 1}
           \/ Stage(c) = 2 /\ StageNext(c) = 5 /\ resp[c] = 500
        /\ Stage(c) = 5 => c \notin pears'
        /\ (c \in pears /\ c \notin pears') => StageNext(c) = 5
        /\ (c \notin pears /\ c \in pears') => Stage(c) = 1 /\ StageNext(c) = 2

(***************************************************************************)
(* C15, amended: a connection moves forward one lifecycle state at a time, *)
(* with one exception: when the upgrade fails it goes from Registered      *)
(* straight to Removed.  It never moves backwards, it is in the registry   *)
(* exactly from Registered to Closing, and Removed is terminal: a removed  *)
(* peer is never added again.                                              *)
(***************************************************************************)
C15_Amended ==
    /\ [][C15_StageStep]_vars
    /\ [](\A c \in Conns : c \in pears <=> Stage(c) \in 2..4)

\* one connection was removed after its delivery loop, another after a failed
\* upgrade
C15_Witness ==
    \E c \in Conns, d \in Conns :
        /\ Stage(c) = 5 /\ resp[c] = 101
        /\ Stage(d) = 5 /\ resp[d] = 500

\* the delivery loop of c has ended
LoopEnded(c) == hpc[c] \in {"close", "remove", "returned"}

\* a step that takes Send i's message away from peer c without writing it
C16_LostStep(c, i) ==
    /\ Copies(c, i) = 1 /\ ~Wrote(c, i)
    /\ Cardinality({k \in DOMAIN ch'[c] : ch'[c][k].id = i}) = 0
    /\ v'[c].id # i
    /\ ~(\E k \in DOMAIN written'[c] : written'[c][k].id = i)

C16_OnlyWriteFailureLoses ==
    \A c \in Conns : \A i \in CallIds :
        C16_LostStep(c, i) => hpc[c] = "write" /\ v[c].id = i /\ hpc'[c] = "close"

PushPos(c, i) == CHOOSE k \in DOMAIN pushed[c] : pushed[c][k].id = i

\* Send i's fan-out is under way: started and not yet returned
FanningOut(i) == \E s \in Senders : spc[s] = "range" /\ msg[s].id = i

(***************************************************************************)
(* C17: the fan-outs of two Sends never interleave: at most one Send is in *)
(* its range loop, a push of one Send never follows on any peer a push of  *)
(* a Send whose fan-out is still under way, and two peers that both had    *)
(* two messages enqueued have them in the same relative order.             *)
(***************************************************************************)
C17_FanOutsAtomic ==
    /\ \A s \in Senders, t \in Senders :
          (spc[s] = "range" /\ spc[t] = "range") => s = t
    /\ \A i \in CallIds, j \in CallIds :
          (FanningOut(i) /\ i # j) =>
              \A c \in Conns : (Attempted(c, i) /\ Attempted(c, j)) => PushPos(c, j) < PushPos(c, i)
    /\ \A c \in Conns, d \in Conns : \A i \in CallIds, j \in CallIds :
          (Accepted(c, i) /\ Accepted(c, j) /\ Accepted(d, i) /\ Accepted(d, j)) =>
              (PushPos(c, i) < PushPos(c, j) <=> PushPos(d, i) < PushPos(d, j))

\* a Send is in the middle of its fan-out over two peers that both hold an
\* earlier Send's message: pushed on one peer, not yet on the other
C17_Witness ==
    \E s \in Senders : \E c \in Conns, d \in Conns : \E i \in CallIds :
        /\ spc[s] = "range" /\ c # d /\ i # msg[s].id
        /\ remaining[s] = {d} /\ Accepted(c, msg[s].id)
        /\ Accepted(c, i) /\ Accepted(d, i)

\* the done channel of connection c is closed
DoneSignalled(c) == rd[c] = "exited"

C18_DoneStep ==
    \A c \in Conns :
        /\ DoneSignalled(c) => DoneSignalled(c)'
        /\ (~DoneSignalled(c) /\ DoneSignalled(c)') =>
              /\ rd[c] = "reading"
              /\ client[c] = "closed" \/ conn[c] = "closed"
        /\ (hpc[c] = "select" /\ hpc'[c] = "close") => DoneSignalled(c)

(***************************************************************************)
(* C18: done is signalled at most once, only after a read has failed, and  *)
(* stays signalled; once the reader has signalled done the handler         *)
(* returns, and once the handler has left its loop (also after a write     *)
(* failure, with the client still there) the reader eventually gets a read *)
(* error and terminates.                                                   *)
(***************************************************************************)
C18_DoneOneShot ==
    /\ [][C18_DoneStep]_vars
    /\ [](\A c \in Conns : calls[c].done = IF DoneSignalled(c) THEN 1 ELSE 0)
    /\ \A c \in Conns : DoneSignalled(c) ~> (hpc[c] = "returned")
    /\ \A c \in Conns : (hpc[c] = "close") ~> DoneSignalled(c)

\* the handler left its loop after a write failure with the client still
\* connected, and the reader has terminated
C18_Witness ==
    \E c \in Conns :
        /\ <<c, "Failed writing to connection">> \in logged
        /\ client[c] = "open"
        /\ DoneSignalled(c) /\ hpc[c] = "returned"

C19_PushOnFullStep ==
    /\ buffer' = buffer
    /\ \A p \in Conns : (pushed'[p] # pushed[p] /\ Len(ch[p]) = buffer) =>
          /\ ch'[p] = ch[p]
          /\ Len(pushed'[p]) = Len(pushed[p]) + 1
          /\ ~pushed'[p][Len(pushed'[p])].ok

C19_WithinCapacity ==
    /\ buffer = IF ops.given THEN ops.buffer ELSE DefaultBuffer
    /\ \A c \in Conns : Len(ch[c]) \in 0..buffer
    /\ \A s \in Senders : \A p \in Conns :
          (spc[s] = "range" /\ p \in remaining[s] /\ Len(ch[p]) = buffer) =>
              ENABLED SendPush(s, p)

(***************************************************************************)
(* C19: a peer's queue holds between 0 and buffer messages, where buffer   *)
(* is the OptBuffer value or 100 by default and never changes; a push on a *)
(* full queue does not wait, leaves the queued messages as they are and    *)
(* drops the new message.                                                  *)
(***************************************************************************)
C19_BoundedQueue == []C19_WithinCapacity /\ [][C19_PushOnFullStep]_vars

\* a push was rejected by a queue that is full and still holds the message
\* queued before it
C19_Witness ==
    \E c \in Conns : \E i \in CallIds, j \in CallIds :
        /\ Len(ch[c]) = buffer
        /\ Rejected(c, j) /\ Accepted(c, i)
        /\ \E k \in DOMAIN ch[c] : ch[c][k].id = i

\* the overflow lines that Send i handed to the logger
OverflowLines(i) == {o \in overflow : o.id = i}

====
